---- MODULE Spec2Model ----
(***************************************************************************)
(* Verification model of the bill-based digital cash ledger               *)
(* (src/src/c1_state_machine/p5_digital_cash.rs): the State (a set of     *)
(* bills and the next_serial counter) and the transition function         *)
(* DigitalCashSystem::next_state with its validator helpers.              *)
(*                                                                         *)
(* u64 is modelled as a 3-bit unsigned integer (values 0..U64_MAX) so     *)
(* that the wrap-around of `+` is reachable.  Rust's `+`, `+=` and        *)
(* Iterator::sum panic on overflow when the crate is compiled with        *)
(* overflow checks (debug profile) and wrap otherwise (release profile);  *)
(* the variable overflow_checks is the build profile of the run.          *)
(***************************************************************************)
EXTENDS Integers, Sequences, FiniteSets, TLC

VARIABLES
    bills,            \* State.bills of the ledger's current state
    next_serial,      \* State.next_serial of the ledger's current state
    overflow_checks,  \* build profile: TRUE = arithmetic overflow panics
    start,            \* the starting_state handed to the last next_state call
    tx,               \* the transition (or bill sequence) handed to the last call
    outcome,          \* "none" | "returned" | "panicked" : how that call ended
    issued            \* every serial that has been carried by a bill of the store

vars == <<bills, next_serial, overflow_checks, start, tx, outcome, issued>>

-----------------------------------------------------------------------------
(* Bounds and input sets *)

\* the largest value of the modelled u64
U64_MAX == 7

U64Modulus == U64_MAX + 1

\* the users bills are owned by
Users == {"Alice", "Bob"}

\* largest amount a Mint is tried with
MaxAmount == 2

\* longest spends list a Transfer is tried with
MaxSpends == 2

\* longest receives list a Transfer is tried with
MaxReceives == 2

\* largest number of bills of a constructed starting state
MaxBills == 2

\* the ledger grown from the empty state stops inserting at this counter
MaxCounter == 3

\* longest bill sequence a state is built from with from_iter
MaxIter == 3

SeqsUpTo(S, n) == UNION {[1..k -> S] : k \in 0..n}

Range(s) == {s[i] : i \in 1..Len(s)}

Bill(owner, amount, serial) ==
    [owner |-> owner, amount |-> amount, serial |-> serial]

\* bills a constructed starting state is built from, and spends are drawn from
StoreBills ==
    { Bill("Alice", 1, 0), Bill("Alice", 2, 0), Bill("Bob", 1, 0),
      Bill("Alice", U64_MAX, 2) }

\* a bill that never circulates in the ledger grown from the empty state
ForgedBill == Bill("Bob", 1, U64_MAX)

\* bills the receives of a Transfer are drawn from, with the given amounts
ReceiveBills(amounts) == [owner : {"Bob"}, amount : amounts, serial : {2, 3}]

\* receive amounts tried on the ledger grown from the empty state
LedgerAmounts == {0, 1}

\* receive amounts tried on a constructed starting state
AnyAmounts == {0, 1, U64_MAX}

\* amounts a Mint is tried with
MintAmounts == (0..MaxAmount) \cup {U64_MAX}

\* next_serial values a constructed starting state is given with set_serial
CounterInputs == {0, MaxCounter, U64_MAX}

-----------------------------------------------------------------------------
(* State and its methods *)

\* a State value together with the flag "the call panicked"
State(b, n) == [bills |-> b, next_serial |-> n, panicked |-> FALSE]

new == State({}, 0)

increment_serial(s) ==
    IF s.next_serial + 1 > U64_MAX
    THEN IF overflow_checks
         THEN [s EXCEPT !.panicked = TRUE]
         ELSE [s EXCEPT !.next_serial = (s.next_serial + 1) % U64Modulus]
    ELSE [s EXCEPT !.next_serial = s.next_serial + 1]

add_bill(s, elem) ==
    IF s.panicked THEN s
    ELSE increment_serial([s EXCEPT !.bills = @ \cup {elem}])

RECURSIVE add_bills(_, _, _)
\* the loop `for bill in receives { next_state.add_bill(bill.clone()) }`
add_bills(s, receives, i) ==
    IF i > Len(receives) THEN s
    ELSE add_bills(add_bill(s, receives[i]), receives, i + 1)

\* mutant: the counter is the number of distinct bills of the built store
from_iter_CountDistinct(iter) ==
    State(Range(iter), Cardinality(Range(iter)))

\* State::from_iter, and State::from which only forwards to it
from_iter(iter) == add_bills(new, iter, 1)

-----------------------------------------------------------------------------
(* Validator helpers *)

\* mutant: the empty-receives check is missing
is_empty_receive_fails_Never(receives) == FALSE

is_empty_receive_fails(receives) == Len(receives) = 0

is_overflow_receives_fails(total_spent, total_received) ==
    total_received > total_spent

RECURSIVE has_incorrect_serial_from(_, _, _, _, _)
has_incorrect_serial_from(receives, spends_serials, existing_bills, new_serials, i) ==
    IF i > Len(receives) THEN FALSE
    ELSE IF receives[i].amount = 0 THEN TRUE
    ELSE IF \/ receives[i].serial \in spends_serials
            \/ receives[i].serial \in new_serials
            \/ receives[i].serial \in existing_bills
         THEN TRUE
    ELSE has_incorrect_serial_from(receives, spends_serials, existing_bills,
                                   new_serials \cup {receives[i].serial}, i + 1)

\* mutant: receives are not compared with the serials circulating in the store
has_incorrect_serial_NoExisting(receives, spends_serials, existing_bills) ==
    has_incorrect_serial_from(receives, spends_serials, {}, {}, 1)

has_incorrect_serial(receives, spends_serials, existing_bills) ==
    has_incorrect_serial_from(receives, spends_serials, existing_bills, {}, 1)

RECURSIVE sum_from(_, _, _)
\* the fold of Iterator::sum over u64: value is the wrapped sum, overflowed
\* tells whether some addition left the u64 range
sum_from(bs, i, acc) ==
    IF i > Len(bs) THEN acc
    ELSE sum_from(bs, i + 1,
                  [value |-> (acc.value + bs[i].amount) % U64Modulus,
                   overflowed |-> acc.overflowed
                                    \/ acc.value + bs[i].amount > U64_MAX])

get_total_amount(bs) == sum_from(bs, 1, [value |-> 0, overflowed |-> FALSE])

get_serials_set_from_vec(bs) == {bs[i].serial : i \in 1..Len(bs)}

get_serials_set_from_hashset(bs) == {b.serial : b \in bs}

-----------------------------------------------------------------------------
(* The transition function *)

Panic(s) == [s EXCEPT !.panicked = TRUE]

next_state_Mint(starting_state, minter, amount) ==
    IF amount = 0 THEN starting_state
    ELSE add_bill(starting_state,
                  Bill(minter, amount, starting_state.next_serial))

\* mutant: the apply step removes every bill that carries the serial of a
\* spent bill, not only the spent bills themselves
next_state_Transfer_RemoveBySerial(starting_state, spends, receives) ==
    IF is_empty_receive_fails(receives) THEN starting_state
    ELSE
    LET total_spent == get_total_amount(spends)
        total_received == get_total_amount(receives)
    IN
    IF overflow_checks /\ (total_spent.overflowed \/ total_received.overflowed)
    THEN Panic(starting_state)
    ELSE IF is_overflow_receives_fails(total_spent.value, total_received.value)
    THEN starting_state
    ELSE IF ~ \A i \in 1..Len(spends) : spends[i] \in starting_state.bills
    THEN starting_state
    ELSE IF has_incorrect_serial(receives,
                                 get_serials_set_from_vec(spends),
                                 get_serials_set_from_hashset(starting_state.bills))
    THEN starting_state
    ELSE add_bills([starting_state EXCEPT
                       !.bills = {b \in @ : b.serial
                                    \notin get_serials_set_from_vec(spends)}],
                   receives, 1)

next_state_Transfer(starting_state, spends, receives) ==
    IF is_empty_receive_fails(receives) THEN starting_state
    ELSE
    LET total_spent == get_total_amount(spends)
        total_received == get_total_amount(receives)
    IN
    IF overflow_checks /\ (total_spent.overflowed \/ total_received.overflowed)
    THEN Panic(starting_state)
    ELSE IF is_overflow_receives_fails(total_spent.value, total_received.value)
    THEN starting_state
    ELSE IF ~ \A i \in 1..Len(spends) : spends[i] \in starting_state.bills
    THEN starting_state
    ELSE IF has_incorrect_serial(receives,
                                 get_serials_set_from_vec(spends),
                                 get_serials_set_from_hashset(starting_state.bills))
    THEN starting_state
    ELSE add_bills([starting_state EXCEPT !.bills = @ \ Range(spends)],
                   receives, 1)

next_state(starting_state, t) ==
    IF t.kind = "Mint"
    THEN next_state_Mint(starting_state, t.minter, t.amount)
    ELSE next_state_Transfer(starting_state, t.spends, t.receives)

-----------------------------------------------------------------------------
(* The ledger as a state machine: one action per kind of transition *)

MintTx(minter, amount) ==
    [kind |-> "Mint", minter |-> minter, amount |-> amount]

TransferTx(spends, receives) ==
    [kind |-> "Transfer", spends |-> spends, receives |-> receives]

NoTx == [kind |-> "None"]

\* one call  ledger = next_state(&ledger, &t)
Call(t) ==
    LET s == State(bills, next_serial)
        r == next_state(s, t)
    IN
    /\ outcome # "panicked"
    /\ start' = s
    /\ tx' = t
    /\ UNCHANGED overflow_checks
    /\ IF r.panicked
       THEN /\ outcome' = "panicked"
            /\ UNCHANGED <<bills, next_serial, issued>>
       ELSE /\ outcome' = "returned"
            /\ bills' = r.bills
            /\ next_serial' = r.next_serial
            /\ issued' = issued \cup get_serials_set_from_hashset(r.bills)

Mint(minter, amount) == Call(MintTx(minter, amount))

Transfer(spends, receives) == Call(TransferTx(spends, receives))

\* the ledger of a node: State::new() and then any sequence of transitions
Init ==
    /\ bills = new.bills
    /\ next_serial = new.next_serial
    /\ overflow_checks \in BOOLEAN
    /\ start = new
    /\ tx = NoTx
    /\ outcome = "none"
    /\ issued = {}

LedgerMint ==
    /\ outcome = "none"
    /\ next_serial + 1 <= MaxCounter
    /\ \E minter \in Users, amount \in MintAmounts :
           Mint(minter, amount)

LedgerTransfer ==
    /\ outcome = "none"
    /\ \E spends \in SeqsUpTo(bills \cup {ForgedBill}, MaxSpends),
          receives \in SeqsUpTo(ReceiveBills(LedgerAmounts), MaxReceives) :
           /\ next_serial + Len(receives) <= MaxCounter
           /\ Transfer(spends, receives)

\* the call is over: the borrows of the starting state and of the transition
\* end, and the returned state is the starting state of the next call
Drop ==
    /\ outcome = "returned"
    /\ start' = State(bills, next_serial)
    /\ tx' = NoTx
    /\ outcome' = "none"
    /\ UNCHANGED <<bills, next_serial, overflow_checks, issued>>

Next == LedgerMint \/ LedgerTransfer \/ Drop

Spec == Init /\ [][Next]_vars

\* one call of next_state on any starting state: a state built with
\* State::from / from_iter and set_serial, as the fixtures are
InitAny ==
    /\ bills \in {b \in SUBSET StoreBills : Cardinality(b) <= MaxBills}
    /\ next_serial \in CounterInputs
    /\ overflow_checks \in BOOLEAN
    /\ start = State(bills, next_serial)
    /\ tx = NoTx
    /\ outcome = "none"
    /\ issued = get_serials_set_from_hashset(bills)

AnyMint ==
    /\ outcome = "none"
    /\ \E minter \in Users, amount \in MintAmounts :
           Mint(minter, amount)

AnyTransfer ==
    /\ outcome = "none"
    /\ \E spends \in SeqsUpTo(StoreBills, MaxSpends),
          receives \in SeqsUpTo(ReceiveBills(AnyAmounts), MaxReceives) :
           Transfer(spends, receives)

NextAny == AnyMint \/ AnyTransfer

SpecAny == InitAny /\ [][NextAny]_vars

FromIterTx(iter) == [kind |-> "FromIter", iter |-> iter]

\* one construction  ledger = State::from_iter(iter)
FromIter ==
    /\ outcome = "none"
    /\ \E iter \in SeqsUpTo(StoreBills, MaxIter) :
           LET r == from_iter(iter) IN
           /\ start' = new
           /\ tx' = FromIterTx(iter)
           /\ UNCHANGED overflow_checks
           /\ IF r.panicked
              THEN /\ outcome' = "panicked"
                   /\ UNCHANGED <<bills, next_serial, issued>>
              ELSE /\ outcome' = "returned"
                   /\ bills' = r.bills
                   /\ next_serial' = r.next_serial
                   /\ issued' = issued \cup get_serials_set_from_hashset(r.bills)

NextFrom == FromIter

\* the construction of a state from a sequence of bills
SpecFrom == Init /\ [][NextFrom]_vars

-----------------------------------------------------------------------------
(* Vocabulary of the claims: sums over the naturals and the five checks *)

RECURSIVE MathSum(_)
\* the sum of the amounts of a list of bills, over the naturals
MathSum(bs) == IF Len(bs) = 0 THEN 0 ELSE Head(bs).amount + MathSum(Tail(bs))

RECURSIVE Total(_)
\* total circulating value of a bill set, over the naturals
Total(bs) ==
    IF bs = {} THEN 0
    ELSE LET b == CHOOSE x \in bs : TRUE IN b.amount + Total(bs \ {b})

IsMint == tx.kind = "Mint"

IsTransfer == tx.kind = "Transfer"

ReceivesNonEmpty == Len(tx.receives) > 0

ValueConserved == MathSum(tx.receives) <= MathSum(tx.spends)

SpendsExist == \A i \in 1..Len(tx.spends) : tx.spends[i] \in start.bills

ReceivesPositive == \A i \in 1..Len(tx.receives) : tx.receives[i].amount > 0

SerialsFresh ==
    \A i \in 1..Len(tx.receives) :
        /\ \A j \in 1..Len(tx.spends) : tx.receives[i].serial # tx.spends[j].serial
        /\ \A j \in 1..Len(tx.receives) :
               j # i => tx.receives[i].serial # tx.receives[j].serial
        /\ \A b \in start.bills : tx.receives[i].serial # b.serial

SumsInRange ==
    /\ MathSum(tx.spends) <= U64_MAX
    /\ MathSum(tx.receives) <= U64_MAX

PassesChecks ==
    /\ ReceivesNonEmpty
    /\ ValueConserved
    /\ SpendsExist
    /\ ReceivesPositive
    /\ SerialsFresh

\* the last call returned a state equal to its starting state
ReturnedStart ==
    /\ outcome = "returned"
    /\ bills = start.bills
    /\ next_serial = start.next_serial

-----------------------------------------------------------------------------
(* C1..C10 *)

C2_TransferConserves ==
    IsTransfer => Total(bills) <= Total(start.bills)

\* C3: in the ledger grown from the empty state no two distinct bills of the
\* store carry the same serial.
C3_SerialsUnique ==
    \A b1, b2 \in bills : b1.serial = b2.serial => b1 = b2

\* C4: in the ledger grown from the empty state every bill of the store has a
\* serial strictly less than next_serial.
C4_SerialBelowCounter ==
    \A b \in bills : b.serial < next_serial

\* C5: no transition inserts a bill whose serial was already carried by a
\* bill of the store, also after that bill was spent.
C5_NoSerialReuse ==
    [][\A b \in bills' \ bills : b.serial \notin issued]_vars

\* C6: a Transfer whose spends list names the same circulating bill more than
\* once returns a state equal to the starting state.
C6_DoubleSpendRejected ==
    (/\ IsTransfer
     /\ \E i, j \in 1..Len(tx.spends) :
            i # j /\ tx.spends[i] = tx.spends[j] /\ tx.spends[i] \in start.bills)
    => ReturnedStart

\* C7: a Transfer whose receive amounts sum, over the naturals, to more than
\* its spend amounts returns a state equal to the starting state.
C7_OverflowingReceivesRejected ==
    (IsTransfer /\ MathSum(tx.receives) > MathSum(tx.spends)) => ReturnedStart

C9_EmptyReceivesBurns ==
    (IsTransfer /\ Len(tx.receives) = 0 /\ SpendsExist)
    => /\ outcome = "returned"
       /\ bills = start.bills \ Range(tx.spends)
       /\ next_serial = start.next_serial

\* C10: next_serial never decreases across a call of next_state from any
\* state; a rejected transaction leaves it equal and an accepted one raises
\* it by one per inserted bill (1 for a Mint, the number of receives for a
\* Transfer).
C10_MonotonicCounter ==
    /\ next_serial >= start.next_serial
    /\ (\/ IsMint /\ tx.amount = 0
        \/ IsTransfer /\ SumsInRange /\ ~PassesChecks)
       => next_serial = start.next_serial
    /\ (outcome = "returned" /\ IsMint /\ tx.amount > 0)
       => next_serial = start.next_serial + 1
    /\ (outcome = "returned" /\ IsTransfer /\ PassesChecks)
       => next_serial = start.next_serial + Len(tx.receives)

\* C11: a Mint with amount > 0 returns the starting bill set plus the bill
\* {minter, amount, serial: starting next_serial} and next_serial raised by
\* one; a Mint with amount 0 returns a state equal to the starting state.
C11_MintResult ==
    IsMint =>
        IF tx.amount > 0
        THEN /\ outcome = "returned"
             /\ bills = start.bills
                          \cup {Bill(tx.minter, tx.amount, start.next_serial)}
             /\ next_serial = start.next_serial + 1
        ELSE ReturnedStart

\* C12: in the ledger grown from the empty state a Mint with amount > 0
\* raises the total circulating value by exactly amount and the number of
\* bills by exactly one.
C12_MintRaisesSupply ==
    (IsMint /\ tx.amount > 0)
    => /\ outcome = "returned"
       /\ Total(bills) = Total(start.bills) + tx.amount
       /\ Cardinality(bills) = Cardinality(start.bills) + 1

\* C13: every call of next_state returns a state; no call panics.
C13_Total == outcome # "panicked"

\* C15: a Transfer in which some spend is not an exact member of the
\* starting bill set returns a state equal to the starting state.
C15_UnknownSpendRejected ==
    (IsTransfer /\ ~SpendsExist) => ReturnedStart

\* C16: a Transfer in which some receive serial equals the serial of a spent
\* bill, of another receive or of a circulating bill returns a state equal to
\* the starting state.
C16_StaleSerialRejected ==
    (IsTransfer /\ ~SerialsFresh) => ReturnedStart

\* the receives of the last Transfer carry the serials the counter would
\* assign: next_serial, next_serial + 1, ... in receive order
ReceivesFollowCounter ==
    \A i \in 1..Len(tx.receives) :
        tx.receives[i].serial = start.next_serial + (i - 1)

\* C17: a Transfer that spends circulating bills and conserves value but
\* whose receives do not carry the counter's next serials returns a state
\* equal to the starting state.
C17_IncorrectSerialRejected ==
    (/\ IsTransfer
     /\ Len(tx.spends) > 0
     /\ SpendsExist
     /\ SumsInRange
     /\ ValueConserved
     /\ ~ReceivesFollowCounter)
    => ReturnedStart

\* C18: in the ledger grown from the empty state every bill of the store has
\* an amount greater than zero, and a Mint of amount zero or a Transfer with
\* a zero-amount receive returns a state equal to the starting state.
C18_PositiveAmounts ==
    /\ \A b \in bills : b.amount > 0
    /\ (IsMint /\ tx.amount = 0) => ReturnedStart
    /\ (IsTransfer /\ ~ReceivesPositive) => ReturnedStart

\* C19: a Transfer with an empty spends list and a non-empty receives list
\* returns a state equal to the starting state.
C19_EmptySpendsRejected ==
    (IsTransfer /\ Len(tx.spends) = 0 /\ ReceivesNonEmpty) => ReturnedStart

\* C20: a Transfer that passes the five checks returns the starting bill set
\* minus the spent bills plus the receive bills, each with its own serial,
\* and next_serial raised by the number of receives.
C20_AcceptedTransferResult ==
    (IsTransfer /\ PassesChecks)
    => /\ outcome = "returned"
       /\ bills = (start.bills \ Range(tx.spends)) \cup Range(tx.receives)
       /\ next_serial = start.next_serial + Len(tx.receives)

IsFromIter == tx.kind = "FromIter"

\* C21: building a state from a sequence of n bills yields the set of the
\* supplied bills and next_serial = n, whatever the serial fields are and
\* also when a bill occurs twice; each insertion of the sequence raises
\* next_serial by exactly one.
C21_BulkConstruction ==
    IsFromIter =>
        /\ outcome = "returned"
        /\ bills = Range(tx.iter)
        /\ next_serial = Len(tx.iter)
        /\ \A k \in 1..Len(tx.iter) :
               from_iter(SubSeq(tx.iter, 1, k)).next_serial
                 = from_iter(SubSeq(tx.iter, 1, k - 1)).next_serial + 1

\* a state has been built from a sequence that holds the same bill twice and
\* a bill whose serial field is not its position
C21_Witness ==
    /\ IsFromIter
    /\ outcome = "returned"
    /\ Len(tx.iter) = MaxIter
    /\ \E i, j \in 1..Len(tx.iter) : i # j /\ tx.iter[i] = tx.iter[j]
    /\ \E i \in 1..Len(tx.iter) : tx.iter[i].serial # i - 1

\* C22: in every call of next_state that returns, each bill of the starting
\* state that is not listed in the spends of the Transfer is still in the
\* store, a Mint keeps every bill of the starting state, and the starting
\* state read after the call, accepted or rejected, is the state the call
\* was given.
C22_Frame ==
    [][ /\ (IsMint' \/ IsTransfer') => start' = State(bills, next_serial)
        /\ (outcome' = "returned" /\ IsTransfer')
           => \A b \in bills : b \notin Range(tx'.spends) => b \in bills'
        /\ (outcome' = "returned" /\ IsMint')
           => bills \subseteq bills' ]_vars

\* an accepted Transfer has spent some bills of a store and left another
\* bill of that store unspent
C22_Witness ==
    /\ outcome = "returned"
    /\ IsTransfer
    /\ PassesChecks
    /\ Len(tx.spends) > 0
    /\ bills # start.bills
    /\ \E b \in start.bills : b \notin Range(tx.spends)

\* the last transaction is one the validation rules reject
Rejected ==
    \/ IsMint /\ tx.amount = 0
    \/ IsTransfer /\ ~PassesChecks

\* C23: for every state and every transaction next_state returns a state
\* that equals the starting state if and only if the transaction is rejected
\* (a Mint of amount 0 or a Transfer failing a validator check); after every
\* accepted transaction next_serial is strictly greater than before.
C23_AcceptanceObservable ==
    (IsMint \/ IsTransfer) =>
        /\ outcome = "returned"
        /\ (bills = start.bills /\ next_serial = start.next_serial) <=> Rejected
        /\ ~Rejected => next_serial > start.next_serial

====
